---- MODULE Spec2Model ----
(***************************************************************************)
(* A model of ssui, the interactive picker for SSH client configurations:  *)
(*   src/src/app.rs   the configuration parser (SshConf::parse), the       *)
(*                    session loop (App::run, App::handle_keys)            *)
(*   src/src/main.rs  the entry point: terminal set-up, read_ssh_conf,     *)
(*                    run, terminal restore, execute_ssh                   *)
(*   src/src/ui.rs    render, which normalises the list cursor             *)
(*                                                                         *)
(* Text is a sequence of one-character strings, so that trimming,          *)
(* splitting, prefix tests and case folding are computed, not assumed.     *)
(* Option<T> is a sequence of length 0 (None) or 1 (Some).                 *)
(***************************************************************************)
EXTENDS Integers, Sequences, FiniteSets, TLC

VARIABLES
    content,      \* ParseSpec: the text handed to SshConf::parse
    parsed,       \* ParseSpec: Option<Result<SshConf, SshConfError>>
    pc,           \* main's position
    fs,           \* what File::open / read_to_string find at the fixed path
    raw,          \* terminal is in raw mode
    alt,          \* terminal is on the alternate screen
    mouse,        \* the mouse reporting modes that are switched on
    confs,        \* App.confs.confs : Vec<Host>
    state,        \* App.confs.state.selected : Option<usize>
    selected_id,  \* App.selected_id : Option<String>
    run_result,   \* Option<Result<String, error>> returned by App::run
    exit,         \* Option<process outcome>
    launched,     \* Option<String>: the target execute_ssh was called with
    last_event,   \* the event handle_keys read last
    n_next,       \* consecutive select_next events just handled
    n_prev,       \* consecutive select_previous events just handled
    n_toggle,     \* consecutive toggle-expand events just handled (at most 2 counted)
    back1,        \* confs before the last toggle-expand event of that run
    back2         \* confs before the last two toggle-expand events of that run

vars == <<content, parsed, pc, fs, raw, alt, mouse, confs, state, selected_id,
          run_result, exit, launched, last_event, n_next, n_prev,
          n_toggle, back1, back2>>

-----------------------------------------------------------------------------
(* Option and Result *)

None == <<>>
Some(v) == <<v>>
IsSome(o) == Len(o) = 1
Unwrap(o) == o[1]

Ok(v) == [tag |-> "Ok", val |-> v]
ParseError(n, m) == [tag |-> "ParseError", line |-> n, msg |-> m]
IoError(what) == [tag |-> "Io", what |-> what]
NoSelection == [tag |-> "Report", msg |-> "No ssh config selected!"]
IsOk(r) == r.tag = "Ok"

SetMin(S) == CHOOSE x \in S : \A y \in S : x <= y
SetMax(S) == CHOOSE x \in S : \A y \in S : x >= y

-----------------------------------------------------------------------------
(* Text primitives of the Rust standard library, as the parser uses them *)

\* char::is_whitespace, on the characters of the model's alphabet
IsWhitespace(c) == c \in {" ", "\t", "\r", "\n"}

Uppers == <<"A","B","C","D","E","F","G","H","I","J","K","L","M",
            "N","O","P","Q","R","S","T","U","V","W","X","Y","Z">>
Lowers == <<"a","b","c","d","e","f","g","h","i","j","k","l","m",
            "n","o","p","q","r","s","t","u","v","w","x","y","z">>

\* str::to_lowercase
ToLowercase(s) ==
    [i \in 1..Len(s) |->
        IF \E k \in 1..Len(Uppers) : Uppers[k] = s[i]
        THEN Lowers[CHOOSE k \in 1..Len(Uppers) : Uppers[k] = s[i]]
        ELSE s[i]]

\* str::starts_with
StartsWith(s, p) == Len(s) >= Len(p) /\ SubSeq(s, 1, Len(p)) = p

\* mutant: trim_start, whitespace at the end kept
Trim_start_only(s) ==
    LET keep == {i \in 1..Len(s) : ~IsWhitespace(s[i])}
    IN  IF keep = {} THEN <<>> ELSE SubSeq(s, SetMin(keep), Len(s))

\* str::trim
Trim(s) ==
    LET keep == {i \in 1..Len(s) : ~IsWhitespace(s[i])}
    IN  IF keep = {} THEN <<>> ELSE SubSeq(s, SetMin(keep), SetMax(keep))


\* mutant: empty lines dropped while splitting, so later lines number lower
Lines_skip_empty(s) ==
    LET RECURSIVE go(_, _)
        go(start, acc) ==
            IF start > Len(s) THEN acc
            ELSE LET nl == {i \in start..Len(s) : s[i] = "\n"}
                 IN  IF nl = {} THEN Append(acc, SubSeq(s, start, Len(s)))
                     ELSE go(SetMin(nl) + 1,
                             IF SetMin(nl) = start THEN acc
                             ELSE Append(acc, SubSeq(s, start, SetMin(nl) - 1)))
    IN  go(1, <<>>)

\* str::lines: pieces ended by "\n" (a "\r" before it dropped too); a last
\* piece without "\n" is a line unless it is empty
Lines(s) ==
    LET StripCr(l) == IF Len(l) > 0 /\ l[Len(l)] = "\r"
                      THEN SubSeq(l, 1, Len(l) - 1) ELSE l
        RECURSIVE go(_, _)
        go(start, acc) ==
            IF start > Len(s) THEN acc
            ELSE LET nl == {i \in start..Len(s) : s[i] = "\n"}
                 IN  IF nl = {} THEN Append(acc, SubSeq(s, start, Len(s)))
                     ELSE go(SetMin(nl) + 1,
                             Append(acc, StripCr(SubSeq(s, start, SetMin(nl) - 1))))
    IN  go(1, <<>>)

\* str::split_whitespace: the maximal runs of non-whitespace
SplitWhitespace(s) ==
    LET RECURSIVE go(_, _, _)
        go(i, cur, acc) ==
            IF i > Len(s)
            THEN IF cur = <<>> THEN acc ELSE Append(acc, cur)
            ELSE IF IsWhitespace(s[i])
                 THEN go(i + 1, <<>>, IF cur = <<>> THEN acc ELSE Append(acc, cur))
                 ELSE go(i + 1, Append(cur, s[i]), acc)
    IN  go(1, <<>>, <<>>)

\* mutant: a line without whitespace split into the line and an empty value
Splitn2_always_two(s) ==
    LET ws == {i \in 1..Len(s) : IsWhitespace(s[i])}
    IN  IF ws = {} THEN <<s, <<>>>>
        ELSE <<SubSeq(s, 1, SetMin(ws) - 1), SubSeq(s, SetMin(ws) + 1, Len(s))>>

\* str::splitn(2, char::is_whitespace): cut at the first whitespace character
Splitn2(s) ==
    LET ws == {i \in 1..Len(s) : IsWhitespace(s[i])}
    IN  IF ws = {} THEN <<s>>
        ELSE <<SubSeq(s, 1, SetMin(ws) - 1), SubSeq(s, SetMin(ws) + 1, Len(s))>>

Digits == <<"0","1","2","3","4","5","6","7","8","9">>
IsDigit(c) == \E k \in 1..10 : Digits[k] = c
DigitVal(c) == (CHOOSE k \in 1..10 : Digits[k] = c) - 1

\* u32::MAX = 4294967295 as a decimal numeral
U32MaxNumeral == <<"4","2","9","4","9","6","7","2","9","5">>

\* a <= b for decimal numerals without leading zeros
NumeralLeq(a, b) ==
    \/ Len(a) < Len(b)
    \/ /\ Len(a) = Len(b)
       /\ \/ a = b
          \/ \E i \in 1..Len(a) :
                /\ SubSeq(a, 1, i - 1) = SubSeq(b, 1, i - 1)
                /\ DigitVal(a[i]) < DigitVal(b[i])

\* <u32 as FromStr>::from_str: an optional "+", then one or more decimal
\* digits, the value at most u32::MAX. A u32 is held as its decimal numeral
\* without leading zeros (what Display writes for it).
ParseU32(s) ==
    LET body == IF Len(s) > 0 /\ s[1] = "+" THEN SubSeq(s, 2, Len(s)) ELSE s
        nz   == {i \in 1..Len(body) : body[i] # "0"}
        num  == IF nz = {} THEN <<"0">> ELSE SubSeq(body, SetMin(nz), Len(body))
    IN  IF body = <<>> \/ \E i \in 1..Len(body) : ~IsDigit(body[i]) THEN None
        ELSE IF NumeralLeq(num, U32MaxNumeral) THEN Some(num) ELSE None

-----------------------------------------------------------------------------
(* SshSetting and SshConf::parse *)

kPort         == <<"p","o","r","t">>
kHostName     == <<"h","o","s","t","n","a","m","e">>
kProxyJump    == <<"p","r","o","x","y","j","u","m","p">>
kLocalForward == <<"l","o","c","a","l","f","o","r","w","a","r","d">>
kIdentityfile == <<"i","d","e","n","t","i","t","y","f","i","l","e">>
kUser         == <<"u","s","e","r">>

\* SshSetting::from_str
from_str(str) ==
    LET s == ToLowercase(str)
    IN  IF s = kPort THEN Some("Port")
        ELSE IF s = kHostName THEN Some("HostName")
        ELSE IF s = kProxyJump THEN Some("ProxyJump")
        ELSE IF s = kLocalForward THEN Some("LocalForward")
        ELSE IF s = kIdentityfile THEN Some("Identityfile")
        ELSE IF s = kUser THEN Some("User")
        ELSE None

host_str == <<"H","o","s","t"," ">>

\* the Host literal of parse
NewHost(id) ==
    [host_id |-> id, host_name |-> None, port |-> None, user |-> None,
     proxy_jump |-> None, local_forward |-> None, id_file |-> None,
     expanded |-> FALSE]

\* mutant: IdentityFile stored in the LocalForward field
Assign_swapped(host, setting, value) ==
    IF setting = "ProxyJump" THEN [host EXCEPT !.proxy_jump = Some(value)]
    ELSE IF setting = "HostName" THEN [host EXCEPT !.host_name = Some(value)]
    ELSE IF setting = "User" THEN [host EXCEPT !.user = Some(value)]
    ELSE IF setting = "Identityfile" THEN [host EXCEPT !.local_forward = Some(value)]
    ELSE IF setting = "LocalForward" THEN [host EXCEPT !.local_forward = Some(value)]
    ELSE [host EXCEPT !.port = ParseU32(value)]

\* mutant: a field that is already set keeps its first value
Assign_first_wins(host, setting, value) ==
    IF setting = "ProxyJump"
    THEN (IF IsSome(host.proxy_jump) THEN host ELSE [host EXCEPT !.proxy_jump = Some(value)])
    ELSE IF setting = "HostName"
    THEN (IF IsSome(host.host_name) THEN host ELSE [host EXCEPT !.host_name = Some(value)])
    ELSE IF setting = "User"
    THEN (IF IsSome(host.user) THEN host ELSE [host EXCEPT !.user = Some(value)])
    ELSE IF setting = "Identityfile"
    THEN (IF IsSome(host.id_file) THEN host ELSE [host EXCEPT !.id_file = Some(value)])
    ELSE IF setting = "LocalForward"
    THEN (IF IsSome(host.local_forward) THEN host
          ELSE [host EXCEPT !.local_forward = Some(value)])
    ELSE (IF IsSome(host.port) THEN host ELSE [host EXCEPT !.port = ParseU32(value)])

\* mutant: a Port value that does not parse leaves the port as it was
Assign_keep_port(host, setting, value) ==
    IF setting = "ProxyJump" THEN [host EXCEPT !.proxy_jump = Some(value)]
    ELSE IF setting = "HostName" THEN [host EXCEPT !.host_name = Some(value)]
    ELSE IF setting = "User" THEN [host EXCEPT !.user = Some(value)]
    ELSE IF setting = "Identityfile" THEN [host EXCEPT !.id_file = Some(value)]
    ELSE IF setting = "LocalForward" THEN [host EXCEPT !.local_forward = Some(value)]
    ELSE IF IsSome(ParseU32(value)) THEN [host EXCEPT !.port = ParseU32(value)]
    ELSE host

\* the match of parse: one recognised setting assigned into the open host
Assign(host, setting, value) ==
    IF setting = "ProxyJump" THEN [host EXCEPT !.proxy_jump = Some(value)]
    ELSE IF setting = "HostName" THEN [host EXCEPT !.host_name = Some(value)]
    ELSE IF setting = "User" THEN [host EXCEPT !.user = Some(value)]
    ELSE IF setting = "Identityfile" THEN [host EXCEPT !.id_file = Some(value)]
    ELSE IF setting = "LocalForward" THEN [host EXCEPT !.local_forward = Some(value)]
    ELSE [host EXCEPT !.port = ParseU32(value)]


\* mutant: the 0-based index of enumerate() reported as the line number
OrphanError_zero_based(line_num) == ParseError(line_num, "Setting outside of Host block")

\* the error of a setting line met while no Host block is open
OrphanError(line_num) == ParseError(line_num + 1, "Setting outside of Host block")


\* mutant: the 0-based index of enumerate() reported as the line number
UnknownKeyError_zero_based(line_num) == ParseError(line_num, "Invalid config line format")

\* the error of a setting line whose key from_str does not know
UnknownKeyError(line_num) == ParseError(line_num + 1, "Invalid config line format")

\* SshConf::parse. line_num is enumerate()'s 0-based index.
parse(text) ==
    LET lines == Lines(text)
        RECURSIVE loop(_, _, _)
        loop(line_num, acc, host) ==
            IF line_num >= Len(lines)
            THEN Ok(IF IsSome(host) THEN Append(acc, Unwrap(host)) ELSE acc)
            ELSE
              LET line == Trim(lines[line_num + 1])
              IN  IF line = <<>> \/ StartsWith(line, <<"#">>)
                  THEN loop(line_num + 1, acc, host)
                  ELSE IF StartsWith(line, host_str)
                  THEN LET patterns ==
                               SplitWhitespace(SubSeq(line, Len(host_str) + 1, Len(line)))
                       IN  IF patterns = <<>>
                           THEN [tag |-> "Panic"]      \* first().unwrap() on None
                           ELSE loop(line_num + 1,
                                     IF IsSome(host) THEN Append(acc, Unwrap(host)) ELSE acc,
                                     Some(NewHost(patterns[1])))
                  ELSE IF IsSome(host)
                  THEN LET parts == Splitn2(line)
                       IN  IF Len(parts) # 2
                           THEN ParseError(line_num + 1, "Invalid config line format")
                           ELSE IF IsSome(from_str(parts[1]))
                           THEN loop(line_num + 1, acc,
                                     Some(Assign(Unwrap(host),
                                                 Unwrap(from_str(parts[1])), parts[2])))
                           ELSE UnknownKeyError(line_num)
                  ELSE OrphanError(line_num)
    IN  loop(0, <<>>, None)

-----------------------------------------------------------------------------
(* ratatui's ListState and the List widget, as the session uses them *)

\* usize::MAX stands in as the largest integer of the checker; the model only
\* compares it with list lengths and saturates at it
UsizeMax == 2147483647

\* ListState::select_next: selected.map_or(0, |i| i.saturating_add(1))
select_next(sel) ==
    IF IsSome(sel)
    THEN Some(IF Unwrap(sel) = UsizeMax THEN UsizeMax ELSE Unwrap(sel) + 1)
    ELSE Some(0)

\* ListState::select_previous: selected.map_or(usize::MAX, |i| i.saturating_sub(1))
select_previous(sel) ==
    IF IsSome(sel)
    THEN Some(IF Unwrap(sel) = 0 THEN 0 ELSE Unwrap(sel) - 1)
    ELSE Some(UsizeMax)

\* ListState::select_first, ListState::select_last
select_first == Some(0)
select_last == Some(UsizeMax)


\* ui::render -> render_stateful_widget(List, .., &mut state). With an empty
\* list area (a terminal without rows or columns) the widget returns before
\* it looks at the selection; otherwise an empty list clears the selection
\* and a selection past the end becomes the last index.
render(sel, len, area_empty) ==
    IF area_empty THEN sel
    ELSE IF len = 0 THEN None
    ELSE IF IsSome(sel) /\ Unwrap(sel) >= len THEN Some(len - 1)
    ELSE sel

\* confs[i] with i past the end: the index panics
IndexPanics(cs, sel) == IsSome(sel) /\ Unwrap(sel) >= Len(cs)

\* mutant: the host under the cursor is expanded, never collapsed
expand_only(cs, sel) ==
    IF IsSome(sel)
    THEN [cs EXCEPT ![Unwrap(sel) + 1].expanded = TRUE]
    ELSE cs

\* App::expand
expand(cs, sel) ==
    IF IsSome(sel)
    THEN [cs EXCEPT ![Unwrap(sel) + 1].expanded = ~cs[Unwrap(sel) + 1].expanded]
    ELSE cs

-----------------------------------------------------------------------------
(* Events read by App::handle_keys *)

Press(code) == [type |-> "Key", kind |-> "Press", code |-> code]
Release(code) == [type |-> "Key", kind |-> "Release", code |-> code]
Resize == [type |-> "Resize", kind |-> "", code |-> ""]
NoEvent == [type |-> "", kind |-> "", code |-> ""]

KeyCodes == {"q", "Esc", "h", "Left", "j", "Down", "k", "Up", "g", "Home",
             "G", "End", "l", "Right", "Enter", "x"}

Events == {Press(c) : c \in KeyCodes} \cup {Release("Enter"), Release("j"), Resize}


\* mutant: without a cursor the first host is chosen
EnterSelection_default(cs, sel, sid) ==
    IF IsSome(sel) THEN Some(cs[Unwrap(sel) + 1].host_id)
    ELSE IF Len(cs) > 0 THEN Some(cs[1].host_id) ELSE sid

\* the chosen identifier stored by the Enter arm
EnterSelection(cs, sel, sid) ==
    IF IsSome(sel) THEN Some(cs[Unwrap(sel) + 1].host_id) ELSE sid


\* mutant: q / Esc handled like an unbound key
QuitReturn_false == FALSE

\* the return value of the q / Esc arm
QuitReturn == TRUE

\* the return value of the `_` arm
UnboundReturn == FALSE

\* App::handle_keys on an event that was read: the bool returned and the
\* fields after it, or the panic of confs[i] on an index past the end
handle_keys(ev, cs, sel, sid) ==
    LET res(b, c, s, i) == [panic |-> FALSE, ret |-> b, confs |-> c, state |-> s,
                            selected_id |-> i]
        same(b) == res(b, cs, sel, sid)
        moved(s) == res(FALSE, cs, s, sid)
        panic == [panic |-> TRUE, ret |-> FALSE, confs |-> cs, state |-> sel,
                  selected_id |-> sid]
    IN  IF ev.type # "Key" THEN same(FALSE)
        ELSE IF ev.kind # "Press" THEN same(FALSE)
        ELSE IF ev.code \in {"q", "Esc"} THEN same(QuitReturn)
        ELSE IF ev.code \in {"h", "Left"} THEN moved(None)
        ELSE IF ev.code \in {"j", "Down"} THEN moved(select_next(sel))
        ELSE IF ev.code \in {"k", "Up"} THEN moved(select_previous(sel))
        ELSE IF ev.code \in {"g", "Home"} THEN moved(select_first)
        ELSE IF ev.code \in {"G", "End"} THEN moved(select_last)
        ELSE IF ev.code \in {"l", "Right"}
             THEN IF IndexPanics(cs, sel) THEN panic
                  ELSE res(FALSE, expand(cs, sel), sel, sid)
        ELSE IF ev.code = "Enter"
             THEN IF IndexPanics(cs, sel) THEN panic
                  ELSE res(TRUE, cs, sel, EnterSelection(cs, sel, sid))
        ELSE same(UnboundReturn)

\* App::run, once handle_keys has returned true
RunReturn(sid) == IF IsSome(sid) THEN Ok(Unwrap(sid)) ELSE NoSelection

IsNextEvent(ev) == ev.type = "Key" /\ ev.kind = "Press" /\ ev.code \in {"j", "Down"}
IsPrevEvent(ev) == ev.type = "Key" /\ ev.kind = "Press" /\ ev.code \in {"k", "Up"}
IsToggleEvent(ev) == ev.type = "Key" /\ ev.kind = "Press" /\ ev.code \in {"l", "Right"}

-----------------------------------------------------------------------------
(* Inputs: configuration texts built from lines *)

MaxLines == 3

\* the lines joined into one text, each ended by "\n" unless it is the last
\* and newline_at_end is false
JoinLines(ls, newline_at_end) ==
    LET RECURSIVE go(_)
        go(i) == IF i > Len(ls) THEN <<>>
                 ELSE ls[i] \o (IF i < Len(ls) \/ newline_at_end THEN <<"\n">> ELSE <<>>)
                      \o go(i + 1)
    IN  go(1)

LineSeqs(S) == UNION {[1..n -> S] : n \in 0..MaxLines}

lnBlank    == <<>>
lnComment  == <<"#","c">>
lnHostA    == <<"H","o","s","t"," ","a">>
lnHostBC   == <<"H","o","s","t"," ","b"," ","c">>
lnHostName == <<" ","H","o","s","t","N","a","m","e"," ","h">>
lnPort22   == <<"P","o","r","t"," ","2","2">>
lnPortX    == <<"P","o","r","t"," ","x">>
lnUserR    == <<"U","s","e","r"," ","r">>
lnUserQ    == <<"u","s","e","r"," "," ","q">>
lnFooBar   == <<"F","o","o"," ","b","a","r">>
lnPortOnly == <<"P","o","r","t">>
lnLowHost  == <<"h","o","s","t"," ","a">>
lnPortBig  == <<"P","o","r","t"," ","4","2","9","4","9","6","7","2","9","6">>
lnHostOnly == <<"H","o","s","t"," ">>
lnHostTab  == <<"H","o","s","t","\t","b">>
lnHostWide == <<" ","H","o","s","t"," "," ","b"," ">>

ParseLines == {lnBlank, lnComment, lnHostA, lnHostBC, lnHostName, lnPort22,
               lnPortX, lnUserR, lnUserQ, lnFooBar, lnPortOnly, lnLowHost,
               lnPortBig}

\* Host lines and near-Host lines, for the claims about block opening
HostLines == {lnBlank, lnHostA, lnHostBC, lnHostOnly, lnHostTab, lnHostWide, lnUserR}

HostContents ==
    {JoinLines(ls, nl) : ls \in LineSeqs(HostLines), nl \in BOOLEAN}

ParseContents ==
    {JoinLines(ls, nl) : ls \in LineSeqs(ParseLines), nl \in BOOLEAN}

SessionLines == {lnHostA, lnHostBC, lnUserR, lnFooBar}

SessionContents == {JoinLines(ls, TRUE) : ls \in LineSeqs(SessionLines)}

-----------------------------------------------------------------------------
(* The process: main, App::read_ssh_conf, App::run *)

\* main returns Err(e): the runtime prints the error and exits with status 1
MainErr(e) == [kind |-> "exit", status |-> 1, printed |-> Some(e)]
\* main returns Ok(()): exit status 0, nothing printed
MainOk == [kind |-> "exit", status |-> 0, printed |-> None]
\* exec succeeded: the process image is now ssh
Replaced == [kind |-> "exec", status |-> 0, printed |-> None]

Idle ==
    /\ raw = FALSE /\ alt = FALSE /\ mouse = {}
    /\ confs = <<>> /\ state = None /\ selected_id = None
    /\ run_result = None /\ exit = None /\ launched = None
    /\ last_event = NoEvent /\ n_next = 0 /\ n_prev = 0
    /\ n_toggle = 0 /\ back1 = <<>> /\ back2 = <<>>

Init ==
    /\ pc = "enable_raw_mode"
    /\ parsed = None
    /\ \/ fs \in {"missing", "unreadable"} /\ content = <<>>
       \/ fs = "file" /\ content \in SessionContents
    /\ Idle

\* an early return of main through `?`
Fail(e) ==
    /\ pc' = "exited"
    /\ exit' = Some(MainErr(e))

\* main.rs:23 enable_raw_mode()?
EnableRawMode ==
    /\ pc = "enable_raw_mode"
    /\ \/ raw' = TRUE /\ pc' = "enter_alt" /\ UNCHANGED exit
       \/ Fail(IoError("terminal")) /\ UNCHANGED raw
    /\ UNCHANGED <<content, parsed, fs, alt, mouse, confs, state, selected_id,
                   run_result, launched, last_event, n_next, n_prev,
                   n_toggle, back1, back2>>

\* the mouse reporting modes EnableMouseCapture switches on, in the order
\* their sequences are written; DisableMouseCapture switches them off in the
\* opposite order
MouseModes == <<"1000", "1002", "1003", "1015", "1006">>

\* the escape sequences of one execute! call: the screen switch and one per
\* mouse mode, written to the unbuffered stderr one after the other
ExecuteWrites == 1 + Len(MouseModes)

\* main.rs:25 execute!(stderr, EnterAlternateScreen, EnableMouseCapture)?
\* The first k sequences reach the terminal; when a write fails (k below
\* ExecuteWrites) main returns the error with what was written in effect.
EnterAlternateScreen ==
    /\ pc = "enter_alt"
    /\ \E k \in 0..ExecuteWrites :
         /\ alt' = (IF k >= 1 THEN TRUE ELSE alt)
         /\ mouse' = mouse \cup {MouseModes[i] : i \in 1..(k - 1)}
         /\ IF k = ExecuteWrites
            THEN pc' = "terminal_new" /\ UNCHANGED exit
            ELSE Fail(IoError("terminal"))
    /\ UNCHANGED <<content, parsed, fs, raw, confs, state, selected_id,
                   run_result, launched, last_event, n_next, n_prev,
                   n_toggle, back1, back2>>

\* main.rs:27-28 Terminal::new(backend)?
TerminalNew ==
    /\ pc = "terminal_new"
    /\ \/ pc' = "read_ssh_conf" /\ UNCHANGED exit
       \/ Fail(IoError("terminal"))
    /\ UNCHANGED <<content, parsed, fs, raw, alt, mouse, confs, state, selected_id,
                   run_result, launched, last_event, n_next, n_prev,
                   n_toggle, back1, back2>>

\* App::read_ssh_conf: what it returns for the file found
read_ssh_conf(f, text) ==
    IF f = "missing" THEN IoError("open")
    ELSE IF f = "unreadable" THEN IoError("read")
    ELSE parse(text)

\* main.rs:30-31 App::new(); app.read_ssh_conf()?
ReadSshConf ==
    /\ pc = "read_ssh_conf"
    /\ LET r == read_ssh_conf(fs, content)
       IN  IF IsOk(r)
           THEN /\ confs' = r.val
                /\ pc' = "draw"
                /\ UNCHANGED exit
           ELSE /\ Fail(r)
                /\ UNCHANGED confs
    /\ UNCHANGED <<content, parsed, fs, raw, alt, mouse, state, selected_id,
                   run_result, launched, last_event, n_next, n_prev,
                   n_toggle, back1, back2>>

\* App::run returns r to main (main.rs:32)
RunReturns(r) ==
    /\ run_result' = Some(r)
    /\ pc' = "disable_raw_mode"

\* terminal.draw(|frame| ui::render(frame, self))? on the selection sel, on
\* a terminal whose size leaves the list an area or none: the list is
\* rendered and the loop goes on to handle_keys, or draw fails (before or
\* after the frame was rendered) and run returns the error
TerminalDraw(sel) ==
    \E area_empty \in BOOLEAN :
       \/ /\ state' = render(sel, Len(confs'), area_empty)
          /\ pc' = "keys"
          /\ UNCHANGED run_result
       \/ /\ state' \in {sel, render(sel, Len(confs'), area_empty)}
          /\ RunReturns(IoError("draw"))

\* App::run, first iteration: the draw before anything was read
Draw ==
    /\ pc = "draw"
    /\ confs' = confs
    /\ TerminalDraw(state)
    /\ UNCHANGED <<content, parsed, fs, raw, alt, mouse, selected_id, exit,
                   launched, last_event, n_next, n_prev,
                   n_toggle, back1, back2>>

Count(n, hit) == IF hit THEN (IF n > Len(confs) THEN n ELSE n + 1) ELSE 0

\* the cursors the model follows: up to MaxBeyond past the last index, and
\* down to MaxBeyond below usize::MAX
MaxBeyond == 1

InModel(sel, len) ==
    IF sel = None THEN TRUE
    ELSE Unwrap(sel) < len + MaxBeyond \/ Unwrap(sel) >= UsizeMax - MaxBeyond

\* a panic unwinds out of main: the message is printed, the exit status is 101
Panicked == [kind |-> "panic", status |-> 101, printed |-> Some([tag |-> "Panic"])]

\* App::run, one turn of the loop from the point where it waits for input:
\* handle_keys on the event read, then the panic of an index past the end,
\* the return of run, or the draw at the top of the next turn
HandleKeys ==
    /\ pc = "keys"
    /\ \E ev \in Events :
         LET r == handle_keys(ev, confs, state, selected_id)
         IN  /\ InModel(r.state, Len(confs))
             /\ last_event' = ev
             /\ n_next' = Count(n_next, IsNextEvent(ev))
             /\ n_prev' = Count(n_prev, IsPrevEvent(ev))
             /\ IF IsToggleEvent(ev)
                THEN /\ n_toggle' = (IF n_toggle = 0 THEN 1 ELSE 2)
                     /\ back1' = confs
                     /\ back2' = back1
                ELSE /\ n_toggle' = 0 /\ back1' = <<>> /\ back2' = <<>>
             /\ confs' = r.confs
             /\ selected_id' = r.selected_id
             /\ IF r.panic
                THEN /\ state' = r.state
                     /\ pc' = "exited"
                     /\ exit' = Some(Panicked)
                     /\ UNCHANGED run_result
                ELSE IF r.ret
                THEN /\ state' = r.state
                     /\ RunReturns(RunReturn(r.selected_id))
                     /\ UNCHANGED exit
                ELSE /\ TerminalDraw(r.state)
                     /\ UNCHANGED exit
    /\ UNCHANGED <<content, parsed, fs, raw, alt, mouse, launched>>

\* event::read()? fails inside handle_keys: run returns the error
ReadEventFails ==
    /\ pc = "keys"
    /\ RunReturns(IoError("event"))
    /\ UNCHANGED <<content, parsed, fs, raw, alt, mouse, confs, state, selected_id,
                   exit, launched, last_event, n_next, n_prev,
                   n_toggle, back1, back2>>

\* main.rs:35 disable_raw_mode()?
DisableRawMode ==
    /\ pc = "disable_raw_mode"
    /\ \/ raw' = FALSE /\ pc' = "leave_alt" /\ UNCHANGED exit
       \/ Fail(IoError("terminal")) /\ UNCHANGED raw
    /\ UNCHANGED <<content, parsed, fs, alt, mouse, confs, state, selected_id,
                   run_result, launched, last_event, n_next, n_prev,
                   n_toggle, back1, back2>>

\* main.rs:36-40 execute!(.., LeaveAlternateScreen, DisableMouseCapture)?
\* The first k sequences reach the terminal: the screen is left by the
\* first, the mouse modes go off one by one, last switched on first.
LeaveAlternateScreen ==
    /\ pc = "leave_alt"
    /\ \E k \in 0..ExecuteWrites :
         /\ alt' = (IF k >= 1 THEN FALSE ELSE alt)
         /\ mouse' = mouse \ {MouseModes[Len(MouseModes) + 1 - i] : i \in 1..(k - 1)}
         /\ IF k = ExecuteWrites
            THEN pc' = "show_cursor" /\ UNCHANGED exit
            ELSE Fail(IoError("terminal"))
    /\ UNCHANGED <<content, parsed, fs, raw, confs, state, selected_id,
                   run_result, launched, last_event, n_next, n_prev,
                   n_toggle, back1, back2>>

\* main.rs:41 terminal.show_cursor()?
ShowCursor ==
    /\ pc = "show_cursor"
    /\ \/ pc' = "finish" /\ UNCHANGED exit
       \/ Fail(IoError("terminal"))
    /\ UNCHANGED <<content, parsed, fs, raw, alt, mouse, confs, state, selected_id,
                   run_result, launched, last_event, n_next, n_prev,
                   n_toggle, back1, back2>>

\* execute_ssh: Command::new("ssh").arg("-t").arg(id).exec(), which replaces
\* the process or returns an error that is dropped
execute_ssh(id) ==
    /\ launched' = Some(id)
    /\ exit' \in {Some(Replaced), Some(MainOk)}

\* main.rs:42-46 if let Ok(id) = selected_id { execute_ssh(id) }; Ok(())
Finish ==
    /\ pc = "finish"
    /\ pc' = "exited"
    /\ IF IsOk(Unwrap(run_result))
       THEN execute_ssh(Unwrap(run_result).val)
       ELSE exit' = Some(MainOk) /\ UNCHANGED launched
    /\ UNCHANGED <<content, parsed, fs, raw, alt, mouse, confs, state, selected_id,
                   run_result, last_event, n_next, n_prev,
                   n_toggle, back1, back2>>

Next ==
    \/ EnableRawMode \/ EnterAlternateScreen \/ TerminalNew \/ ReadSshConf
    \/ Draw \/ HandleKeys \/ ReadEventFails
    \/ DisableRawMode \/ LeaveAlternateScreen \/ ShowCursor \/ Finish

Spec == Init /\ [][Next]_vars

-----------------------------------------------------------------------------
(* The parser alone, on a wider set of texts *)

ParseInit ==
    /\ pc = "parse"
    /\ fs = "file"
    /\ content \in ParseContents
    /\ parsed = None
    /\ Idle

\* SshConf::parse(&contents)
Parse ==
    /\ pc = "parse"
    /\ parsed = None
    /\ parsed' = Some(parse(content))
    /\ UNCHANGED <<content, pc, fs, raw, alt, mouse, confs, state, selected_id,
                   run_result, exit, launched, last_event, n_next, n_prev,
          n_toggle, back1, back2>>

ParseNext == Parse

ParseSpec == ParseInit /\ [][ParseNext]_vars

HostInit ==
    /\ pc = "parse"
    /\ fs = "file"
    /\ content \in HostContents
    /\ parsed = None
    /\ Idle

HostSpec == HostInit /\ [][ParseNext]_vars

-----------------------------------------------------------------------------
(* Properties of the process (specification Spec) *)

Exited == pc = "exited" /\ IsSome(exit)

\* one of main's own terminal calls (set-up or restore) returned the error
TerminalCallFailed ==
    IsSome(exit) /\ Unwrap(exit).printed = Some(IoError("terminal"))

\* read_ssh_conf returned an error: file open, file read or parse
ConfigFailed ==
    /\ IsSome(exit) /\ IsSome(Unwrap(exit).printed)
    /\ \/ Unwrap(Unwrap(exit).printed).tag = "ParseError"
       \/ Unwrap(Unwrap(exit).printed) \in {IoError("open"), IoError("read")}

\* C1: once the terminal is in raw mode / on the alternate screen, every way
\* the process ends (confirmation, quit, an error of the loop, a failure of
\* read_ssh_conf) leaves the terminal restored: raw mode off, alternate
\* screen left. The ends caused by a failing terminal call are left aside.
C1_RestoredOnEveryExit ==
    (Exited /\ ~TerminalCallFailed) => (raw = FALSE /\ alt = FALSE)

\* the loop waits for an event, or has ended on a key
InSession ==
    \/ pc = "keys"
    \/ IsSome(run_result) /\ Unwrap(run_result).tag # "Io"

CursorValid ==
    /\ IsSome(state) => (0 <= Unwrap(state) /\ Unwrap(state) < Len(confs))
    /\ Len(confs) = 0 => state = None

\* C2: wherever the session waits for a key (so wherever Enter or
\* toggle-expand reads confs[i]) and after the key that ended it, the cursor
\* is None or an index below the number of hosts, and None on an empty list.
C2_CursorInBounds == InSession => CursorValid

\* C3: Enter with the cursor on host i ends the session with exactly
\* confs[i].host_id chosen, and the SSH launcher is called only after such an
\* Enter, with that identifier as its target.
C3_EnterChoosesHostUnderCursor ==
    /\ (last_event = Press("Enter") /\ IsSome(state)) =>
          /\ pc \notin {"draw", "keys"}
          /\ Unwrap(state) < Len(confs)
          /\ selected_id = Some(confs[Unwrap(state) + 1].host_id)
          /\ run_result = Some(Ok(confs[Unwrap(state) + 1].host_id))
    /\ IsSome(launched) =>
          /\ last_event = Press("Enter") /\ IsSome(state)
          /\ launched = Some(confs[Unwrap(state) + 1].host_id)

\* C4: Enter without a cursor ends the session with nothing chosen: run
\* returns the no-selection error and the launcher is never called.
C4_EnterWithoutCursor ==
    (last_event = Press("Enter") /\ state = None) =>
        /\ pc \notin {"draw", "keys"}
        /\ selected_id = None
        /\ run_result = Some(NoSelection)
        /\ launched = None

\* C4 witness: the process has ended after Enter on a cleared cursor
C4_Witness ==
    /\ Exited /\ last_event = Press("Enter") /\ state = None /\ Len(confs) > 0

\* C5: q or Esc, whatever the cursor and the expand flags, ends the session
\* with nothing chosen, and the process ends without calling the launcher.
C5_QuitChoosesNothing ==
    last_event \in {Press("q"), Press("Esc")} =>
        /\ pc \notin {"draw", "keys"}
        /\ selected_id = None
        /\ run_result = Some(NoSelection)
        /\ launched = None
        /\ Exited => Unwrap(exit).kind = "exit"

\* C5 witness: the process has ended after q with a cursor on an expanded host
C5_Witness ==
    /\ Exited /\ last_event = Press("q")
    /\ IsSome(state) /\ Unwrap(state) < Len(confs)
    /\ confs[Unwrap(state) + 1].expanded

\* C6: on a list of L > 0 hosts, L select_next events in a row bring the
\* cursor to L-1 from wherever it was and every further one leaves it there;
\* likewise select_previous and 0; on an empty list the cursor stays None.
C6_NavigationConverges ==
    pc = "keys" =>
        /\ (Len(confs) > 0 /\ n_next >= Len(confs)) => state = Some(Len(confs) - 1)
        /\ (Len(confs) > 0 /\ n_prev >= Len(confs)) => state = Some(0)
        /\ Len(confs) = 0 => state = None

\* C7: when the run ends in a configuration I/O error, a ParseError or the
\* no-selection error of an Enter without a cursor, the error is printed and
\* the exit status is not 0.
C7_ErrorsReported ==
    (Exited /\ ~TerminalCallFailed /\
     (ConfigFailed \/ (run_result = Some(NoSelection) /\ last_event = Press("Enter")))) =>
        /\ Unwrap(exit).kind = "exit"
        /\ Unwrap(exit).status # 0
        /\ IsSome(Unwrap(exit).printed)

-----------------------------------------------------------------------------
(* Properties of the parser (specification ParseSpec) *)

\* the lines of a text by the positions of its "\n"
RefLines(text) ==
    LET nls == {i \in 1..Len(text) : text[i] = "\n"}
        nth(k) == CHOOSE i \in nls : Cardinality({j \in nls : j < i}) = k - 1
        n == Cardinality(nls) +
             (IF Len(text) > 0 /\ text[Len(text)] # "\n" THEN 1 ELSE 0)
    IN  [k \in 1..n |->
            SubSeq(text,
                   IF k = 1 THEN 1 ELSE nth(k - 1) + 1,
                   IF k <= Cardinality(nls) THEN nth(k) - 1 ELSE Len(text))]

KnownKeys == {kHostName, kPort, kUser, kProxyJump, kLocalForward, kIdentityfile}

Significant(l) == Trim(l) # <<>> /\ Trim(l)[1] # "#"
IsHostLine(l) == Significant(l) /\ StartsWith(Trim(l), host_str)
IsSettingLine(l) == Significant(l) /\ ~StartsWith(Trim(l), host_str)
TwoPart(l) == \E i \in 1..Len(Trim(l)) : IsWhitespace(Trim(l)[i])
KeyOf(l) ==
    LET t == Trim(l)
    IN  SubSeq(t, 1, SetMin({i \in 1..Len(t) : IsWhitespace(t[i])}) - 1)
InBlock(ls, i) == \E j \in 1..(i - 1) : IsHostLine(ls[j])

Orphan(ls, i) == IsSettingLine(ls[i]) /\ ~InBlock(ls, i)
UnknownKey(ls, i) ==
    /\ IsSettingLine(ls[i]) /\ InBlock(ls, i) /\ TwoPart(ls[i])
    /\ ToLowercase(KeyOf(ls[i])) \notin KnownKeys
OneToken(ls, i) == IsSettingLine(ls[i]) /\ InBlock(ls, i) /\ ~TwoPart(ls[i])
Offending(ls, i) == Orphan(ls, i) \/ UnknownKey(ls, i) \/ OneToken(ls, i)
OffendingLines(ls) == {i \in 1..Len(ls) : Offending(ls, i)}

\* C8: when the first line that is neither blank nor a comment is a setting
\* line, parse returns ParseError(n, "Setting outside of Host block") with n
\* that line's 1-based number, and no host records.
C8_OrphanSettingRejected ==
    IsSome(parsed) =>
        LET ls  == RefLines(content)
            sig == {i \in 1..Len(ls) : Significant(ls[i])}
        IN  (sig # {} /\ IsSettingLine(ls[SetMin(sig)])) =>
                Unwrap(parsed) = ParseError(SetMin(sig), "Setting outside of Host block")

\* C8 witness: an orphan setting on line 3, after a blank and a comment line
C8_Witness ==
    /\ parsed = Some(ParseError(3, "Setting outside of Host block"))
    /\ LET ls == RefLines(content)
       IN  ~Significant(ls[1]) /\ ~Significant(ls[2]) /\ IsSettingLine(ls[3])

\* C9: when the first offending line is a two-part setting line in an open
\* Host block whose key is none of the six known ones, parse returns
\* ParseError(n, "Invalid config line format") with n that line's number.
C9_UnknownDirectiveRejected ==
    IsSome(parsed) =>
        LET ls  == RefLines(content)
            off == OffendingLines(ls)
        IN  (off # {} /\ UnknownKey(ls, SetMin(off))) =>
                Unwrap(parsed) = ParseError(SetMin(off), "Invalid config line format")

\* C9 witness: an unknown key on line 3 of an open block
C9_Witness ==
    /\ IsSome(parsed)
    /\ LET ls == RefLines(content)
       IN  /\ Len(ls) = 3 /\ UnknownKey(ls, 3)
           /\ OffendingLines(ls) = {3}
           /\ Unwrap(parsed).tag = "ParseError"

\* C10: parse fails exactly when some line offends; the line reported is the
\* 1-based number of the first offending line among all lines, blank and
\* comment lines counted, and the result carries the error alone, without
\* the hosts completed before that line.
C10_ErrorLineAndNoPartialResult ==
    IsSome(parsed) =>
        LET ls  == RefLines(content)
            off == OffendingLines(ls)
            r   == Unwrap(parsed)
        IN  /\ off # {} => /\ r.tag = "ParseError"
                           /\ r.line = SetMin(off)
                           /\ DOMAIN r = {"tag", "line", "msg"}
            /\ off = {} => r.tag = "Ok"

\* C10 witness: one host completed by the Host line of the next, then an
\* offending line 3: the error is all that is returned
C10_Witness ==
    /\ IsSome(parsed) /\ Unwrap(parsed).tag = "ParseError"
    /\ Unwrap(parsed).line = 3
    /\ LET ls == RefLines(content)
       IN  IsHostLine(ls[1]) /\ IsHostLine(ls[2])

-----------------------------------------------------------------------------
(* Host records written as text and parsed back (specification RoundTripSpec) *)

MaxHosts == 2

\* a host record as a Host line and one indented setting line per present field
WriteHost(h) ==
    LET setting(label, field) ==
            IF IsSome(field)
            THEN <<" "," "," "," ">> \o label \o <<" ">> \o Unwrap(field) \o <<"\n">>
            ELSE <<>>
    IN  host_str \o h.host_id \o <<"\n">>
        \o setting(<<"H","o","s","t","N","a","m","e">>, h.host_name)
        \o setting(<<"P","o","r","t">>, h.port)
        \o setting(<<"U","s","e","r">>, h.user)
        \o setting(<<"P","r","o","x","y","J","u","m","p">>, h.proxy_jump)
        \o setting(<<"L","o","c","a","l","F","o","r","w","a","r","d">>, h.local_forward)
        \o setting(<<"I","d","e","n","t","i","t","y","F","i","l","e">>, h.id_file)

WriteHosts(hs) ==
    LET RECURSIVE go(_)
        go(i) == IF i > Len(hs) THEN <<>> ELSE WriteHost(hs[i]) \o go(i + 1)
    IN  go(1)

\* the optional fields of the records written: values as a Host can hold
\* them (not empty, no whitespace at the end, no line break)
FieldProfiles ==
    LET none == [host_name |-> None, port |-> None, user |-> None,
                 proxy_jump |-> None, local_forward |-> None, id_file |-> None,
                 expanded |-> FALSE]
    IN  { none,
          [none EXCEPT !.host_name = Some(<<"h">>)],
          [none EXCEPT !.port = Some(<<"2","2">>)],
          [none EXCEPT !.user = Some(<<"r">>)],
          [none EXCEPT !.proxy_jump = Some(<<"j">>)],
          [none EXCEPT !.local_forward = Some(<<"8"," ","l">>)],
          [none EXCEPT !.id_file = Some(<<"k">>)],
          [none EXCEPT !.host_name = Some(<<"h">>), !.port = Some(<<"2","2">>),
                       !.user = Some(<<"r">>), !.proxy_jump = Some(<<"j">>),
                       !.local_forward = Some(<<"l">>), !.id_file = Some(<<"k">>)],
          [none EXCEPT !.port = Some(U32MaxNumeral), !.user = Some(<<" ","q">>)],
          [none EXCEPT !.port = Some(<<"0">>), !.expanded = TRUE] }

HostIds == {<<"a">>, <<"b">>}

WithId(f, id) ==
    [host_id |-> id, host_name |-> f.host_name, port |-> f.port, user |-> f.user,
     proxy_jump |-> f.proxy_jump, local_forward |-> f.local_forward,
     id_file |-> f.id_file, expanded |-> f.expanded]

HostRecords == {WithId(f, id) : f \in FieldProfiles, id \in HostIds}

RoundTripInit ==
    /\ pc = "write"
    /\ fs = "file"
    /\ content = <<>>
    /\ parsed = None
    /\ raw = FALSE /\ alt = FALSE /\ mouse = {}
    /\ confs \in UNION {[1..n -> HostRecords] : n \in 0..MaxHosts}
    /\ state = None /\ selected_id = None
    /\ run_result = None /\ exit = None /\ launched = None
    /\ last_event = NoEvent /\ n_next = 0 /\ n_prev = 0
    /\ n_toggle = 0 /\ back1 = <<>> /\ back2 = <<>>

\* the records written out as the configuration text
Write ==
    /\ pc = "write"
    /\ content' = WriteHosts(confs)
    /\ pc' = "parse"
    /\ UNCHANGED <<parsed, fs, raw, alt, mouse, confs, state, selected_id, run_result,
                   exit, launched, last_event, n_next, n_prev,
                   n_toggle, back1, back2>>

RoundTripNext == Write \/ Parse

RoundTripSpec == RoundTripInit /\ [][RoundTripNext]_vars

Collapsed(hs) == [i \in 1..Len(hs) |-> [hs[i] EXCEPT !.expanded = FALSE]]

\* C11: N >= 0 host records written as `Host <host_id>` and one setting line
\* per present field parse back to exactly N records, in the same order, with
\* the same host_id, the same present and absent fields, the same values,
\* and expanded = false.
C11_RoundTrip ==
    (IsSome(parsed) /\ content = WriteHosts(confs)) =>
        Unwrap(parsed) = Ok(Collapsed(confs))

\* C11 witness: two records of the same host_id, one with all six fields,
\* one expanded, parsed back
C11_Witness ==
    /\ IsSome(parsed) /\ Len(confs) = 2
    /\ confs[1].host_id = confs[2].host_id
    /\ IsSome(confs[1].id_file) /\ IsSome(confs[1].port)
    /\ confs[2].expanded
    /\ Len(Unwrap(parsed).val) = 2

-----------------------------------------------------------------------------
(* More properties of the parser (specifications ParseSpec and HostSpec) *)

\* what follows the first whitespace character of a trimmed two-part line
RefValue(l) ==
    LET t == Trim(l)
    IN  SubSeq(t, SetMin({i \in 1..Len(t) : IsWhitespace(t[i])}) + 1, Len(t))

\* s without its leading whitespace
RefTrimStart(v) ==
    LET keep == {i \in 1..Len(v) : ~IsWhitespace(v[i])}
    IN  IF keep = {} THEN <<>> ELSE SubSeq(v, SetMin(keep), Len(v))

HostLineIndices(ls) == {i \in 1..Len(ls) : IsHostLine(ls[i])}

\* the index of the k-th Host line
NthHostLine(ls, k) ==
    CHOOSE i \in HostLineIndices(ls) :
        Cardinality({j \in HostLineIndices(ls) : j < i}) = k - 1

\* the setting lines with key k (a lower-case key) in the k-th block
BlockLines(ls, b, key) ==
    LET first == NthHostLine(ls, b)
        later == {j \in HostLineIndices(ls) : j > first}
        last  == IF later = {} THEN Len(ls) ELSE SetMin(later) - 1
    IN  {j \in (first + 1)..last :
            IsSettingLine(ls[j]) /\ TwoPart(ls[j]) /\ ToLowercase(KeyOf(ls[j])) = key}

\* the field of a record that a lower-case key names
FieldOf(h, key) ==
    IF key = kHostName THEN h.host_name
    ELSE IF key = kUser THEN h.user
    ELSE IF key = kProxyJump THEN h.proxy_jump
    ELSE IF key = kLocalForward THEN h.local_forward
    ELSE IF key = kIdentityfile THEN h.id_file
    ELSE h.port

AllDigits(v) == Len(v) > 0 /\ \A i \in 1..Len(v) : IsDigit(v[i])

\* a decimal numeral of at most nine digits without leading zeros
PlainU32(v) == AllDigits(v) /\ Len(v) <= 9 /\ (Len(v) = 1 \/ v[1] # "0")

\* a value that is not numeric, or numeric and above u32::MAX
InvalidU32(v) ==
    \/ v = <<>>
    \/ \E i \in 1..Len(v) : ~IsDigit(v[i])
    \/ AllDigits(v) /\ v[1] # "0" /\ ~NumeralLeq(v, U32MaxNumeral)

\* C12: in a text without offending lines parse succeeds, and every field of
\* every record holds the value of the last line with its key in the record's
\* block, also when the key occurs twice; a key that does not occur in a
\* block leaves the field absent, whatever other blocks hold.
C12_LastValueWins ==
    IsSome(parsed) =>
        LET ls == RefLines(content)
            r  == Unwrap(parsed)
        IN  OffendingLines(ls) = {} =>
              /\ r.tag = "Ok"
              /\ Len(r.val) = Cardinality(HostLineIndices(ls))
              /\ \A b \in 1..Len(r.val) : \A key \in KnownKeys :
                    LET occ == BlockLines(ls, b, key)
                        v   == RefValue(ls[SetMax(occ)])
                    IN  /\ occ = {} => FieldOf(r.val[b], key) = None
                        /\ (occ # {} /\ key # kPort) => FieldOf(r.val[b], key) = Some(v)
                        /\ (occ # {} /\ key = kPort /\ PlainU32(v)) =>
                               FieldOf(r.val[b], key) = Some(v)

\* C12 witness: a block with two User lines of different values, parsed
C12_Witness ==
    /\ IsSome(parsed) /\ Unwrap(parsed).tag = "Ok"
    /\ LET ls == RefLines(content)
       IN  /\ Len(ls) = 3 /\ IsHostLine(ls[1])
           /\ BlockLines(ls, 1, kUser) = {2, 3}
           /\ RefValue(ls[2]) # RefValue(ls[3])

\* C13: a Port line whose value is no u32 is never the line parse fails on,
\* and in a text without offending lines the record's port is absent when
\* the last Port line of its block has such a value, also after a valid one.
C13_BadPortIsAbsent ==
    IsSome(parsed) =>
        LET ls == RefLines(content)
            r  == Unwrap(parsed)
        IN  /\ r.tag = "ParseError" =>
                 ~(/\ IsSettingLine(ls[r.line]) /\ InBlock(ls, r.line)
                   /\ TwoPart(ls[r.line])
                   /\ ToLowercase(KeyOf(ls[r.line])) = kPort)
            /\ OffendingLines(ls) = {} =>
                 /\ r.tag = "Ok"
                 /\ \A b \in 1..Len(r.val) :
                       LET occ == BlockLines(ls, b, kPort)
                       IN  (occ # {} /\ InvalidU32(RefValue(ls[SetMax(occ)]))) =>
                               r.val[b].port = None

\* C13 witness: a valid Port line followed by one above u32::MAX, parsed
C13_Witness ==
    /\ IsSome(parsed) /\ Unwrap(parsed).tag = "Ok"
    /\ LET ls == RefLines(content)
       IN  /\ Len(ls) = 3 /\ IsHostLine(ls[1])
           /\ BlockLines(ls, 1, kPort) = {2, 3}
           /\ PlainU32(RefValue(ls[2]))
           /\ AllDigits(RefValue(ls[3])) /\ InvalidU32(RefValue(ls[3]))

\* C16: the value of a setting line begins with the first character after
\* the key that is not whitespace: however many whitespace characters
\* separate key and value, the field holds the value without them.
C16_WhitespaceRunSplit ==
    IsSome(parsed) =>
        LET ls == RefLines(content)
            r  == Unwrap(parsed)
        IN  OffendingLines(ls) = {} =>
              /\ r.tag = "Ok"
              /\ \A b \in 1..Len(r.val) : \A key \in KnownKeys :
                    LET occ == BlockLines(ls, b, key)
                        v   == RefTrimStart(RefValue(ls[SetMax(occ)]))
                    IN  /\ (occ # {} /\ key # kPort) => FieldOf(r.val[b], key) = Some(v)
                        /\ (occ # {} /\ key = kPort /\ PlainU32(v)) =>
                               FieldOf(r.val[b], key) = Some(v)

\* C17 as stated: when the first offending line is a setting line of a single
\* token, parse returns ParseError(n, "Invalid config line format") with n
\* that line's number.
C17_SingleTokenAnywhere ==
    IsSome(parsed) =>
        LET ls  == RefLines(content)
            off == OffendingLines(ls)
        IN  (off # {} /\ IsSettingLine(ls[SetMin(off)]) /\ ~TwoPart(ls[SetMin(off)])) =>
                Unwrap(parsed) = ParseError(SetMin(off), "Invalid config line format")

\* C17 amended: when the first offending line is a setting line of a single
\* token inside an open Host block, parse returns
\* ParseError(n, "Invalid config line format") with n that line's number.
C17_SingleTokenInBlock ==
    IsSome(parsed) =>
        LET ls  == RefLines(content)
            off == OffendingLines(ls)
        IN  (off # {} /\ OneToken(ls, SetMin(off))) =>
                Unwrap(parsed) = ParseError(SetMin(off), "Invalid config line format")

\* C17 witness: a single token on line 3 of an open block, rejected
C17_Witness ==
    /\ parsed = Some(ParseError(3, "Invalid config line format"))
    /\ LET ls == RefLines(content)
       IN  Len(ls) = 3 /\ OneToken(ls, 3) /\ OffendingLines(ls) = {3}

lowHostPrefix == <<"h","o","s","t"," ">>

\* C18: keywords match in any letter case: a setting line of an open block
\* whose key is one of the six in any casing is never rejected, and a line
\* that begins with the Host keyword in any casing opens a block, so parse
\* never fails on it.
C18_KeywordsIgnoreCase ==
    IsSome(parsed) =>
        LET ls == RefLines(content)
            r  == Unwrap(parsed)
        IN  r.tag = "ParseError" =>
              /\ ~(/\ IsSettingLine(ls[r.line]) /\ InBlock(ls, r.line)
                   /\ TwoPart(ls[r.line])
                   /\ ToLowercase(KeyOf(ls[r.line])) \in KnownKeys)
              /\ ~StartsWith(ToLowercase(Trim(ls[r.line])), lowHostPrefix)

\* the first token after the Host prefix of a Host line
RefFirstToken(l) ==
    LET t     == Trim(l)
        chars == {i \in (Len(host_str) + 1)..Len(t) : ~IsWhitespace(t[i])}
        start == SetMin(chars)
        stops == {j \in start..Len(t) : IsWhitespace(t[j])}
    IN  IF chars = {} THEN <<>>
        ELSE SubSeq(t, start, IF stops = {} THEN Len(t) ELSE SetMin(stops) - 1)

\* C19: every line parse takes as a Host line has a token after the prefix,
\* so taking the first token never fails; on success there is exactly one
\* record per Host line, in source order, each with that line's first token
\* as its non-empty host_id.
C19_OneRecordPerHostLine ==
    IsSome(parsed) =>
        LET ls == RefLines(content)
            r  == Unwrap(parsed)
            hl == HostLineIndices(ls)
        IN  /\ r.tag \in {"Ok", "ParseError"}
            /\ \A i \in hl : RefFirstToken(ls[i]) # <<>>
            /\ r.tag = "Ok" =>
                 /\ Len(r.val) = Cardinality(hl)
                 /\ \A k \in 1..Len(r.val) :
                       /\ r.val[k].host_id # <<>>
                       /\ r.val[k].host_id = RefFirstToken(ls[NthHostLine(ls, k)])

\* C19 witness: three Host lines, among them one with more patterns and one
\* with wide spacing, parsed into three records
C19_Witness ==
    /\ IsSome(parsed) /\ Unwrap(parsed).tag = "Ok"
    /\ Len(Unwrap(parsed).val) = 3
    /\ LET ls == RefLines(content)
       IN  /\ Trim(ls[1]) = lnHostBC
           /\ ls[2] = lnHostWide
           /\ IsHostLine(ls[3])

-----------------------------------------------------------------------------
(* More properties of the session (specification Spec) *)

\* C14: after two toggle-expand events in a row the expanded flags are what
\* they were before the first; without a cursor a toggle-expand event
\* changes no flag.
C14_TogglePairRestores ==
    /\ n_toggle = 2 => confs = back2
    /\ (n_toggle >= 1 /\ state = None) => confs = back1

\* C14 witness: two toggles in a row on a host under the cursor, the first
\* of which changed its flag
C14_Witness ==
    /\ pc = "keys" /\ n_toggle = 2 /\ IsSome(state)
    /\ back1 # back2 /\ confs = back2

PressOf(codes) == {Press(c) : c \in codes}

\* C15: one navigation event on a list of L > 0 hosts, the loop going on:
\* select_next takes None to 0 and i to min(i+1, L-1); select_previous takes
\* i to max(i-1, 0) and never leaves None; select_first gives 0, select_last
\* L-1; clear_selection gives None, on any list.
C15_SingleStepNavigation ==
    [][(pc = "keys" /\ pc' = "keys") =>
         LET L == Len(confs)
             i == Unwrap(state)
         IN  /\ (L > 0 /\ last_event' \in PressOf({"j", "Down"})) =>
                    state' = (IF state = None THEN Some(0)
                              ELSE Some(IF i + 1 < L - 1 THEN i + 1 ELSE L - 1))
             /\ (L > 0 /\ last_event' \in PressOf({"k", "Up"})) =>
                    IF state = None THEN state' # None
                    ELSE state' = Some(IF i - 1 > 0 THEN i - 1 ELSE 0)
             /\ (L > 0 /\ last_event' \in PressOf({"g", "Home"})) => state' = Some(0)
             /\ (L > 0 /\ last_event' \in PressOf({"G", "End"})) => state' = Some(L - 1)
             /\ last_event' \in PressOf({"h", "Left"}) => state' = None
      ]_vars

BoundCodes == {"q", "Esc", "h", "Left", "j", "Down", "k", "Up", "g", "Home",
               "G", "End", "l", "Right", "Enter"}

\* a key event that is no press, a press outside the binding table, or an
\* event that is no key event
Unbound(ev) == ev.type # "Key" \/ ev.kind # "Press" \/ ev.code \notin BoundCodes

LoopError == {Some(IoError("draw")), Some(IoError("event"))}

\* C20: while the loop waits for input, an event that is bound to nothing
\* leaves the cursor, the expanded flags, the host list and the chosen
\* identifier as they are and the loop waiting, unless a render or input
\* error ends it; and the loop ends only on q / Esc, on Enter, or on such
\* an error.
C20_UnboundEventsChangeNothing ==
    [][pc = "keys" =>
         /\ (Unbound(last_event') /\ run_result' \notin LoopError) =>
                /\ pc' = "keys"
                /\ state' = state /\ confs' = confs /\ selected_id' = selected_id
         /\ pc' # "keys" =>
                \/ run_result' \in LoopError
                \/ /\ last_event' \in PressOf({"q", "Esc", "Enter"})
                   /\ IsSome(run_result')
      ]_vars

====
